---- MODULE Spec2Model ----
(***************************************************************************)
(* GitHub issue-relationships MCP server: the tool layer (server.ts), the  *)
(* Relation Client (github/client.ts), configuration loading (config.ts)   *)
(* and the process entry point (index.ts).                                  *)
(*                                                                         *)
(* One tools/call request is handled in two steps: CallTool runs the       *)
(* dispatch, the input validation and the handler up to its first await    *)
(* (the remote call); RemoteReply delivers the outcome of that remote call *)
(* and runs the rest of the client method, the handler and the dispatch.   *)
(*                                                                         *)
(* The Session is the line-delimited JSON-RPC client of the end-to-end     *)
(* tests (StdioMcpClient): request ids, the pending table, the 10-second   *)
(* timers, the initialize handshake and close().                           *)
(*                                                                         *)
(* Specifications: Spec (one invocation at a time), WalkSpec (a caller     *)
(* following next_offset), ConcSpec (invocations that overlap), SessionSpec *)
(* and SessionLive (the Session, without and with the event loop's          *)
(* fairness).                                                               *)
(***************************************************************************)
EXTENDS Integers, Sequences, FiniteSets, TLC

\* ------------------------------------------------------------------ bounds
MaxItems == 3
MaxOffset == 4
LongTitle == 13000      \* title length of a listed issue: two exceed the cap
MaxRequests == 2        \* requests one Session sends
MaxInflight == 2        \* tool invocations awaiting their remote call at once

\* ------------------------------------------------------- program constants
CHARACTER_LIMIT == 25000
DEFAULT_PAGE_SIZE == 20
MAX_PAGE_SIZE == 100

VARIABLES
    proc,         \* "starting" | "running" | "exited"
    exitCode,     \* process exit status once proc = "exited"
    env,          \* GITHUB_TOKEN in the environment: absent (<<>>) or <<value>>
    remoteList,   \* the full list the remote service returns for a list endpoint
    cur,          \* the invocation awaiting its remote call: <<>> or <<record>>
    out,          \* the answered exchange the caller has not read yet
    prev,         \* how the exchange the caller read last had gone
    walk          \* a caller following next_offset from offset 0

\* the Session of the end-to-end client (StdioMcpClient)
VARIABLES
    messageId,        \* the last request id handed out
    pendingRequests,  \* the pending table: request id -> the waiter registered
    isConnected,      \* set once initialize() has completed
    rlClosed,         \* the line reader is closed: no further line is handled
    requests,         \* the requests sent, in order: [id, method]
    waiter,           \* per request sent: "pending" or how its promise settled
    timers,           \* the requests whose 10-second timer has not fired yet
    resuming,         \* initialize() calls whose await has been resolved
    written,          \* the frames written to the server's stdin, in order
    lastLine,         \* the line handled last
    notInitialized    \* the calls that threw 'Client not initialized'

serverVars == <<proc, exitCode, env, remoteList, cur, out, prev, walk>>
sessVars == <<messageId, pendingRequests, isConnected, rlClosed, requests,
              waiter, timers, resuming, written, lastLine, notInitialized>>
vars == <<proc, exitCode, env, remoteList, cur, out, prev, walk,
          messageId, pendingRequests, isConnected, rlClosed, requests,
          waiter, timers, resuming, written, lastLine, notInitialized>>

\* ----------------------------------------------------------- small helpers
Min(a, b) == IF a < b THEN a ELSE b
Max(a, b) == IF a > b THEN a ELSE b

\* an optional value: <<>> is undefined / absent, <<v>> is present
Undefined == <<>>
Some(v) == <<v>>
IsDefined(o) == o # <<>>

\* text is a sequence of tokens; a token is a literal piece or a number
Lit(s) == [lit |-> s, num |-> 0]
Num(n) == [lit |-> "#", num |-> n]
Contains(text, tok) == \E i \in 1..Len(text) : text[i] = tok

\* Array.prototype.slice(start, end) on a sequence
JsSlice(items, start, end) ==
    LET len == Len(items)
        from == IF start < 0 THEN Max(len + start, 0) ELSE Min(start, len)
        to == IF end < 0 THEN Max(len + end, 0) ELSE Min(end, len)
    IN  IF to <= from THEN <<>> ELSE SubSeq(items, from + 1, to)

\* --------------------------------------------------------------- test data
Issue(i) == [id |-> 200000000 + i, number |-> 100 + i, titleLen |-> LongTitle,
             state |-> IF i % 3 = 0 THEN "closed" ELSE "open"]
ParentIssue == [id |-> 300000001, number |-> 50, titleLen |-> 12,
                state |-> "open"]
FullList(n) == [i \in 1..n |-> Issue(i)]
\* the issue number the fixtures answer 404 for on every path: no such issue
MissingIssue == 9999

\* the nine registered tools
ListTools == {"github_get_blocked_by", "github_get_blocking", "github_list_sub_issues"}
DependencyModifyTools == {"github_add_blocking_dependency",
                          "github_remove_blocking_dependency"}
WriteTools == DependencyModifyTools \cup
              {"github_add_sub_issue", "github_remove_sub_issue",
               "github_reprioritize_sub_issue"}
RegisteredTools == ListTools \cup WriteTools \cup {"github_get_parent_issue"}

\* ------------------------------------------------------- input validation
Default(opt, d) == IF IsDefined(opt) THEN opt[1] ELSE d
OptPositive(opt) == IsDefined(opt) => opt[1] > 0

\* the parsed parameters a handler receives (defaults applied)
Params(args) ==
    [issue_number |-> args.issue_number,
     limit |-> Default(args.limit, DEFAULT_PAGE_SIZE),
     offset |-> Default(args.offset, 0),
     response_format |-> Default(args.response_format, "markdown"),
     id |-> args.id,
     replace_parent |-> Default(args.replace_parent, FALSE),
     after_id |-> args.after_id,
     before_id |-> args.before_id]

\* a schema that clamps limit and offset into range instead of rejecting
GetDependenciesInputSchema_clamp(args) ==
    [ok |-> /\ args.issue_number > 0
            /\ IsDefined(args.response_format) =>
                   args.response_format[1] \in {"markdown", "json"},
     data |-> [Params(args) EXCEPT
                 !.limit = Max(1, Min(MAX_PAGE_SIZE, @)),
                 !.offset = Max(0, @)]]

\* GetDependenciesInputSchema (github_get_blocked_by, github_get_blocking)
GetDependenciesInputSchema(args) ==
    [ok |-> /\ args.issue_number > 0
            /\ IsDefined(args.limit) =>
                   (args.limit[1] >= 1 /\ args.limit[1] <= MAX_PAGE_SIZE)
            /\ IsDefined(args.offset) => args.offset[1] >= 0
            /\ IsDefined(args.response_format) =>
                   args.response_format[1] \in {"markdown", "json"},
     data |-> Params(args)]

\* ListSubIssuesInputSchema (github_list_sub_issues)
ListSubIssuesInputSchema(args) ==
    [ok |-> /\ args.issue_number > 0
            /\ IsDefined(args.limit) =>
                   (args.limit[1] >= 1 /\ args.limit[1] <= MAX_PAGE_SIZE)
            /\ IsDefined(args.offset) => args.offset[1] >= 0
            /\ IsDefined(args.response_format) =>
                   args.response_format[1] \in {"markdown", "json"},
     data |-> Params(args)]

\* GetParentInputSchema
GetParentInputSchema(args) ==
    [ok |-> /\ args.issue_number > 0
            /\ IsDefined(args.response_format) =>
                   args.response_format[1] \in {"markdown", "json"},
     data |-> Params(args)]

\* DependencyModifyInputSchema, RemoveSubIssueInputSchema
ModifyInputSchema(args) ==
    [ok |-> args.issue_number > 0 /\ args.id > 0,
     data |-> Params(args)]

\* AddSubIssueInputSchema
AddSubIssueInputSchema(args) ==
    [ok |-> args.issue_number > 0 /\ args.id > 0,
     data |-> Params(args)]

\* ReprioritizeSubIssueInputSchema
ReprioritizeSubIssueInputSchema(args) ==
    [ok |-> /\ args.issue_number > 0 /\ args.id > 0
            /\ OptPositive(args.after_id)
            /\ OptPositive(args.before_id),
     data |-> Params(args)]

\* the inputSchema each tool was registered with
InputSchema(tool, args) ==
    CASE tool \in {"github_get_blocked_by", "github_get_blocking"} ->
             GetDependenciesInputSchema(args)
      [] tool = "github_list_sub_issues" -> ListSubIssuesInputSchema(args)
      [] tool = "github_get_parent_issue" -> GetParentInputSchema(args)
      [] tool \in DependencyModifyTools \cup {"github_remove_sub_issue"} ->
             ModifyInputSchema(args)
      [] tool = "github_add_sub_issue" -> AddSubIssueInputSchema(args)
      [] OTHER -> ReprioritizeSubIssueInputSchema(args)

\* -------------------------------------------------------------- pagination
\* applyPagination with has_more computed with <= instead of <
applyPagination_hasMoreLe(items, offset, limit) ==
    LET total == Len(items)
        paginated == JsSlice(items, offset, offset + limit)
        has_more == offset + Len(paginated) <= total
    IN  [items |-> paginated,
         total |-> total,
         count |-> Len(paginated),
         offset |-> offset,
         has_more |-> has_more,
         next_offset |-> IF has_more THEN Some(offset + Len(paginated))
                         ELSE Undefined]

\* applyPagination with next_offset forgetting the requested offset
applyPagination_nextNoOffset(items, offset, limit) ==
    LET total == Len(items)
        paginated == JsSlice(items, offset, offset + limit)
        has_more == offset + Len(paginated) < total
    IN  [items |-> paginated,
         total |-> total,
         count |-> Len(paginated),
         offset |-> offset,
         has_more |-> has_more,
         next_offset |-> IF has_more THEN Some(Len(paginated))
                         ELSE Undefined]

\* applyPagination reporting the requested limit as the count
applyPagination_countLimit(items, offset, limit) ==
    LET total == Len(items)
        paginated == JsSlice(items, offset, offset + limit)
        has_more == offset + Len(paginated) < total
    IN  [items |-> paginated,
         total |-> total,
         count |-> limit,
         offset |-> offset,
         has_more |-> has_more,
         next_offset |-> IF has_more THEN Some(offset + Len(paginated))
                         ELSE Undefined]

applyPagination(items, offset, limit) ==
    LET total == Len(items)
        paginated == JsSlice(items, offset, offset + limit)
        has_more == offset + Len(paginated) < total
    IN  [items |-> paginated,
         total |-> total,
         count |-> Len(paginated),
         offset |-> offset,
         has_more |-> has_more,
         next_offset |-> IF has_more THEN Some(offset + Len(paginated))
                         ELSE Undefined]

\* -------------------------------------------------------------- formatting
\* length in characters of a token and of a text
RECURSIVE Digits(_)
Digits(n) == IF n < 0 THEN 1 + Digits(-n)
             ELSE IF n < 10 THEN 1 ELSE 1 + Digits(n \div 10)

TokLen(tok) ==
    CASE tok.lit = "#" -> Digits(tok.num)
      [] tok.lit \in {"title", "json", "cut"} -> tok.num
      [] OTHER -> Len(tok.lit)

RECURSIVE TextLen(_)
TextLen(text) == IF text = <<>> THEN 0
                 ELSE TokLen(Head(text)) + TextLen(Tail(text))

\* String.prototype.slice(0, n): the first n characters of a text; a token
\* cut in the middle is kept as a "cut" token of the remaining length
RECURSIVE TextSlice(_, _)
TextSlice(text, n) ==
    IF text = <<>> \/ n <= 0 THEN <<>>
    ELSE IF TokLen(Head(text)) <= n
         THEN <<Head(text)>> \o TextSlice(Tail(text), n - TokLen(Head(text)))
         ELSE <<[lit |-> "cut", num |-> n]>>

Title(issue) == [lit |-> "title", num |-> issue.titleLen]

formatIssueAsMarkdown(issue) ==
    <<Lit("- #"), Num(issue.number), Lit(": "), Title(issue), Lit(" ("),
      Lit(issue.state), Lit(") - "), Lit("html_url")>>

RECURSIVE formatIssueListFrom(_, _, _)
formatIssueListFrom(issues, index, numbered) ==
    IF index > Len(issues) THEN <<>>
    ELSE LET issue == issues[index]
             line == IF numbered
                     THEN <<Num(index), Lit(". #"), Num(issue.number), Lit(": "),
                            Title(issue), Lit(" ("), Lit(issue.state),
                            Lit(") - "), Lit("html_url")>>
                     ELSE formatIssueAsMarkdown(issue)
         IN  line \o (IF index < Len(issues) THEN <<Lit("\n")>> ELSE <<>>)
                  \o formatIssueListFrom(issues, index + 1, numbered)

formatIssueListAsMarkdown(issues, numbered) ==
    formatIssueListFrom(issues, 1, numbered)

\* JSON.stringify(data, null, 2): one token carrying the serialized value;
\* its length grows with the titles of the issues it contains
RECURSIVE JsonItemsLen(_)
JsonItemsLen(issues) ==
    IF issues = <<>> THEN 0
    ELSE 200 + Head(issues).titleLen + JsonItemsLen(Tail(issues))

JsonStringify(data, issues) ==
    <<[lit |-> "json", num |-> 120 + JsonItemsLen(issues), value |-> data]>>

TruncationNotice == Lit("\n\n[Response truncated due to size limit]")

\* a formatResponse that cuts the text but appends no notice
formatResponse_noNotice(data, issues, format, markdownText) ==
    LET text == IF format = "json" THEN JsonStringify(data, issues)
                ELSE markdownText
        finalText == IF TextLen(text) > CHARACTER_LIMIT
                     THEN TextSlice(text, CHARACTER_LIMIT)
                     ELSE text
    IN  [text |-> finalText, structuredContent |-> data]

\* a formatResponse that appends the notice to the whole text
formatResponse_noSlice(data, issues, format, markdownText) ==
    LET text == IF format = "json" THEN JsonStringify(data, issues)
                ELSE markdownText
        finalText == IF TextLen(text) > CHARACTER_LIMIT
                     THEN text \o <<TruncationNotice>>
                     ELSE text
    IN  [text |-> finalText, structuredContent |-> data]

\* markdownText is markdownFormatter(data); issues are the issues in data
formatResponse(data, issues, format, markdownText) ==
    LET text == IF format = "json" THEN JsonStringify(data, issues)
                ELSE markdownText
        finalText == IF TextLen(text) > CHARACTER_LIMIT
                     THEN TextSlice(text, CHARACTER_LIMIT) \o <<TruncationNotice>>
                     ELSE text
    IN  [text |-> finalText, structuredContent |-> data]

\* ------------------------------------------------- Relation Client methods
\* a remote call's outcome: success with data, or a thrown request error
Ok(data) == [ok |-> TRUE, data |-> Some(data), error |-> Undefined]
Fail(err) == [ok |-> FALSE, data |-> Undefined, error |-> Some(err)]
HttpError(status) == [hasStatus |-> TRUE, status |-> status,
                      message |-> [lit |-> "HttpError", num |-> status]]
NetworkError == [hasStatus |-> FALSE, status |-> 0,
                 message |-> Lit("fetch failed")]

\* a method's completion: a returned value or a thrown error
Return(v) == [threw |-> FALSE, error |-> Undefined, value |-> Some(v)]
Throw(e) == [threw |-> TRUE, error |-> Some(e), value |-> Undefined]

Null == <<>>

getBlockedBy(call, outcome) ==
    IF outcome.ok THEN Return(outcome.data[1]) ELSE Throw(outcome.error[1])

getBlocking(call, outcome) ==
    IF outcome.ok THEN Return(outcome.data[1]) ELSE Throw(outcome.error[1])

addBlockingDependency(call, outcome) ==
    IF outcome.ok
    THEN Return([success |-> TRUE,
                 message |-> <<Lit("Issue #"), Num(call.issue_number),
                               Lit(" is now blocked by issue ID "),
                               Num(call.id)>>])
    ELSE Throw(outcome.error[1])

removeBlockingDependency(call, outcome) ==
    IF outcome.ok
    THEN Return([success |-> TRUE,
                 message |-> <<Lit("Removed blocking dependency: issue ID "),
                               Num(call.id), Lit(" no longer blocks #"),
                               Num(call.issue_number)>>])
    ELSE Throw(outcome.error[1])

\* getParentIssue without its catch block
getParentIssue_noCatch(call, outcome) ==
    IF outcome.ok THEN Return(Some(outcome.data[1]))
    ELSE Throw(outcome.error[1])

\* getParentIssue turning every request error into null
getParentIssue_catchAll(call, outcome) ==
    IF outcome.ok THEN Return(Some(outcome.data[1]))
    ELSE IF outcome.error[1].hasStatus
         THEN Return(Null)
         ELSE Throw(outcome.error[1])

getParentIssue(call, outcome) ==
    IF outcome.ok THEN Return(Some(outcome.data[1]))
    ELSE IF outcome.error[1].hasStatus /\ outcome.error[1].status = 404
         THEN Return(Null)
         ELSE Throw(outcome.error[1])

listSubIssues(call, outcome) ==
    IF outcome.ok THEN Return(outcome.data[1]) ELSE Throw(outcome.error[1])

\* addSubIssue that does not wait for the request to succeed
addSubIssue_noAwait(call, outcome) ==
    Return([success |-> TRUE,
            message |-> <<Lit("Issue ID "), Num(call.id),
                          Lit(" is now a sub-issue of #"),
                          Num(call.issue_number)>>])

addSubIssue(call, outcome) ==
    IF outcome.ok
    THEN Return([success |-> TRUE,
                 message |-> <<Lit("Issue ID "), Num(call.id),
                               Lit(" is now a sub-issue of #"),
                               Num(call.issue_number)>>])
    ELSE Throw(outcome.error[1])

removeSubIssue(call, outcome) ==
    IF outcome.ok
    THEN Return([success |-> TRUE,
                 message |-> <<Lit("Issue ID "), Num(call.id),
                               Lit(" is no longer a sub-issue of #"),
                               Num(call.issue_number)>>])
    ELSE Throw(outcome.error[1])

Truthy(opt) == IsDefined(opt) /\ opt[1] # 0
NumOrUndefined(opt) == IF IsDefined(opt) THEN Num(opt[1]) ELSE Lit("undefined")

\* a reprioritizeSubIssue whose message always says 'after'
reprioritizeSubIssue_alwaysAfter(call, outcome) ==
    IF outcome.ok
    THEN Return([success |-> TRUE,
                 message |-> <<Lit("Sub-issue ID "), Num(call.id),
                               Lit(" moved "), Lit("after issue ID "),
                               NumOrUndefined(call.after_id)>>])
    ELSE Throw(outcome.error[1])

\* reprioritizeSubIssue: the request, then the confirmation message
reprioritizeSubIssue(call, outcome) ==
    IF outcome.ok
    THEN LET position == IF Truthy(call.after_id)
                         THEN <<Lit("after issue ID "), NumOrUndefined(call.after_id)>>
                         ELSE <<Lit("before issue ID "), NumOrUndefined(call.before_id)>>
         IN  Return([success |-> TRUE,
                     message |-> <<Lit("Sub-issue ID "), Num(call.id),
                                   Lit(" moved ")>> \o position])
    ELSE Throw(outcome.error[1])

\* the client method a tool's handler awaits
ClientOp(tool) ==
    CASE tool = "github_get_blocked_by" -> "getBlockedBy"
      [] tool = "github_get_blocking" -> "getBlocking"
      [] tool = "github_add_blocking_dependency" -> "addBlockingDependency"
      [] tool = "github_remove_blocking_dependency" -> "removeBlockingDependency"
      [] tool = "github_get_parent_issue" -> "getParentIssue"
      [] tool = "github_list_sub_issues" -> "listSubIssues"
      [] tool = "github_add_sub_issue" -> "addSubIssue"
      [] tool = "github_remove_sub_issue" -> "removeSubIssue"
      [] OTHER -> "reprioritizeSubIssue"

ClientMethod(call, outcome) ==
    CASE call.op = "getBlockedBy" -> getBlockedBy(call, outcome)
      [] call.op = "getBlocking" -> getBlocking(call, outcome)
      [] call.op = "addBlockingDependency" -> addBlockingDependency(call, outcome)
      [] call.op = "removeBlockingDependency" -> removeBlockingDependency(call, outcome)
      [] call.op = "getParentIssue" -> getParentIssue(call, outcome)
      [] call.op = "listSubIssues" -> listSubIssues(call, outcome)
      [] call.op = "addSubIssue" -> addSubIssue(call, outcome)
      [] call.op = "removeSubIssue" -> removeSubIssue(call, outcome)
      [] OTHER -> reprioritizeSubIssue(call, outcome)

\* ------------------------------------------------------------ tool handlers
\* a tool result: { content: [{ type: "text", text }], structuredContent?, isError? }
ToolResult(text, structured, isError) ==
    [isError |-> isError, text |-> text, structured |-> structured]

MoreResultsTrailer(data) ==
    IF data.has_more
    THEN <<Lit("\n\n*More results available. Use offset="),
           NumOrUndefined(data.next_offset), Lit(" to see next page.*")>>
    ELSE <<>>

Showing(data) ==
    IF data.has_more THEN <<Lit(" (showing "), Num(data.count), Lit(")")>>
    ELSE <<>>

\* a github_get_blocked_by whose zero-result shortcut covers markdown only
github_get_blocked_by_markdownShortcut(params, allIssues) ==
    LET pg == applyPagination(allIssues, params.offset, params.limit)
        output == [blocked_by |-> pg.items, total |-> pg.total,
                   count |-> pg.count, offset |-> pg.offset,
                   has_more |-> pg.has_more, next_offset |-> pg.next_offset,
                   issue_number |-> params.issue_number]
        markdown == <<Lit("# Blocking Issues for #"), Num(params.issue_number),
                      Lit("\n\n"), Lit("Found "), Num(output.total),
                      Lit(" blocking issue(s)")>> \o Showing(output)
                    \o <<Lit(":\n\n")>>
                    \o formatIssueListAsMarkdown(output.blocked_by, FALSE)
                    \o MoreResultsTrailer(output)
        r == formatResponse(output, output.blocked_by, params.response_format,
                            markdown)
    IN  IF Len(allIssues) = 0 /\ params.response_format = "markdown"
        THEN ToolResult(<<Lit("Issue #"), Num(params.issue_number),
                          Lit(" in owner/repo"),
                          Lit(" is not blocked by any issues.")>>,
                        Some(output), FALSE)
        ELSE ToolResult(r.text, Some(r.structuredContent), FALSE)

\* github_get_blocked_by, after `await githubClient.getBlockedBy(...)`
github_get_blocked_by(params, allIssues) ==
    LET pg == applyPagination(allIssues, params.offset, params.limit)
        output == [blocked_by |-> pg.items, total |-> pg.total,
                   count |-> pg.count, offset |-> pg.offset,
                   has_more |-> pg.has_more, next_offset |-> pg.next_offset,
                   issue_number |-> params.issue_number]
        markdown == <<Lit("# Blocking Issues for #"), Num(params.issue_number),
                      Lit("\n\n"), Lit("Found "), Num(output.total),
                      Lit(" blocking issue(s)")>> \o Showing(output)
                    \o <<Lit(":\n\n")>>
                    \o formatIssueListAsMarkdown(output.blocked_by, FALSE)
                    \o MoreResultsTrailer(output)
        r == formatResponse(output, output.blocked_by, params.response_format,
                            markdown)
    IN  IF Len(allIssues) = 0
        THEN ToolResult(<<Lit("Issue #"), Num(params.issue_number),
                          Lit(" in owner/repo"),
                          Lit(" is not blocked by any issues.")>>,
                        Some(output), FALSE)
        ELSE ToolResult(r.text, Some(r.structuredContent), FALSE)

\* a github_get_blocking whose summary line prints the page's count as the total
github_get_blocking_printsCount(params, allIssues) ==
    LET pg == applyPagination(allIssues, params.offset, params.limit)
        output == [blocking |-> pg.items, total |-> pg.total,
                   count |-> pg.count, offset |-> pg.offset,
                   has_more |-> pg.has_more, next_offset |-> pg.next_offset,
                   issue_number |-> params.issue_number]
        markdown == <<Lit("# Issues Blocked by #"), Num(params.issue_number),
                      Lit("\n\n"), Lit("Blocking "), Num(output.count),
                      Lit(" issue(s)")>> \o Showing(output)
                    \o <<Lit(":\n\n")>>
                    \o formatIssueListAsMarkdown(output.blocking, FALSE)
                    \o MoreResultsTrailer(output)
        r == formatResponse(output, output.blocking, params.response_format,
                            markdown)
    IN  IF Len(allIssues) = 0
        THEN ToolResult(<<Lit("Issue #"), Num(params.issue_number),
                          Lit(" in owner/repo"),
                          Lit(" is not blocking any issues.")>>,
                        Some(output), FALSE)
        ELSE ToolResult(r.text, Some(r.structuredContent), FALSE)

\* github_get_blocking, after `await githubClient.getBlocking(...)`
github_get_blocking(params, allIssues) ==
    LET pg == applyPagination(allIssues, params.offset, params.limit)
        output == [blocking |-> pg.items, total |-> pg.total,
                   count |-> pg.count, offset |-> pg.offset,
                   has_more |-> pg.has_more, next_offset |-> pg.next_offset,
                   issue_number |-> params.issue_number]
        markdown == <<Lit("# Issues Blocked by #"), Num(params.issue_number),
                      Lit("\n\n"), Lit("Blocking "), Num(output.total),
                      Lit(" issue(s)")>> \o Showing(output)
                    \o <<Lit(":\n\n")>>
                    \o formatIssueListAsMarkdown(output.blocking, FALSE)
                    \o MoreResultsTrailer(output)
        r == formatResponse(output, output.blocking, params.response_format,
                            markdown)
    IN  IF Len(allIssues) = 0
        THEN ToolResult(<<Lit("Issue #"), Num(params.issue_number),
                          Lit(" in owner/repo"),
                          Lit(" is not blocking any issues.")>>,
                        Some(output), FALSE)
        ELSE ToolResult(r.text, Some(r.structuredContent), FALSE)

\* a github_list_sub_issues whose shortcut tests the page, not the full list
github_list_sub_issues_pageShortcut(params, allSubIssues) ==
    LET pg == applyPagination(allSubIssues, params.offset, params.limit)
        output == [sub_issues |-> pg.items, total |-> pg.total,
                   count |-> pg.count, offset |-> pg.offset,
                   has_more |-> pg.has_more, next_offset |-> pg.next_offset,
                   parent_issue_number |-> params.issue_number]
        markdown == <<Lit("# Sub-Issues of #"), Num(params.issue_number),
                      Lit("\n\n"), Num(output.total), Lit(" sub-issue(s)")>>
                    \o Showing(output)
                    \o <<Lit(" in priority order:\n\n")>>
                    \o formatIssueListAsMarkdown(output.sub_issues, TRUE)
                    \o MoreResultsTrailer(output)
        r == formatResponse(output, output.sub_issues, params.response_format,
                            markdown)
    IN  IF Len(output.sub_issues) = 0
        THEN ToolResult(<<Lit("Issue #"), Num(params.issue_number),
                          Lit(" in owner/repo"), Lit(" has no sub-issues.")>>,
                        Some(output), FALSE)
        ELSE ToolResult(r.text, Some(r.structuredContent), FALSE)

\* github_list_sub_issues, after `await githubClient.listSubIssues(...)`
github_list_sub_issues(params, allSubIssues) ==
    LET pg == applyPagination(allSubIssues, params.offset, params.limit)
        output == [sub_issues |-> pg.items, total |-> pg.total,
                   count |-> pg.count, offset |-> pg.offset,
                   has_more |-> pg.has_more, next_offset |-> pg.next_offset,
                   parent_issue_number |-> params.issue_number]
        markdown == <<Lit("# Sub-Issues of #"), Num(params.issue_number),
                      Lit("\n\n"), Num(output.total), Lit(" sub-issue(s)")>>
                    \o Showing(output)
                    \o <<Lit(" in priority order:\n\n")>>
                    \o formatIssueListAsMarkdown(output.sub_issues, TRUE)
                    \o MoreResultsTrailer(output)
        r == formatResponse(output, output.sub_issues, params.response_format,
                            markdown)
    IN  IF Len(allSubIssues) = 0
        THEN ToolResult(<<Lit("Issue #"), Num(params.issue_number),
                          Lit(" in owner/repo"), Lit(" has no sub-issues.")>>,
                        Some(output), FALSE)
        ELSE ToolResult(r.text, Some(r.structuredContent), FALSE)

\* github_get_parent_issue, after `await githubClient.getParentIssue(...)`;
\* parent is Null or <<issue>>
github_get_parent_issue(params, parent) ==
    LET output == [parent |-> parent, issue_number |-> params.issue_number,
                   has_parent |-> parent # Null]
        markdown == IF parent = Null THEN <<>>
                    ELSE <<Lit("# Parent of Issue #"), Num(params.issue_number),
                           Lit("\n\n"), Lit("Issue #"), Num(params.issue_number),
                           Lit(" is a sub-issue of:\n\n"), Lit("- #"),
                           Num(parent[1].number), Lit(": "), Title(parent[1]),
                           Lit(" ("), Lit(parent[1].state), Lit(")\n"),
                           Lit("  URL: "), Lit("html_url")>>
        r == formatResponse(output, parent, params.response_format, markdown)
    IN  IF parent = Null
        THEN ToolResult(<<Lit("Issue #"), Num(params.issue_number),
                          Lit(" in owner/repo"), Lit(" has no parent issue.")>>,
                        Some(output), FALSE)
        ELSE ToolResult(r.text, Some(r.structuredContent), FALSE)

\* the five write handlers return { content: [{ text: result.message }] }
WriteHandler(params, result) == ToolResult(result.message, Undefined, FALSE)

\* the reprioritize checks without the "both supplied" case
ReprioritizeCheck_neitherOnly(params) ==
    IF ~IsDefined(params.after_id) /\ ~IsDefined(params.before_id)
    THEN Some(ToolResult(<<Lit("Error: Must specify either after_id or before_id to position the sub-issue.")>>,
                         Undefined, TRUE))
    ELSE <<>>

\* the checks github_reprioritize_sub_issue makes before any remote call:
\* <<>> when they pass, else <<the error result>>
ReprioritizeCheck(params) ==
    IF ~IsDefined(params.after_id) /\ ~IsDefined(params.before_id)
    THEN Some(ToolResult(<<Lit("Error: Must specify either after_id or before_id to position the sub-issue.")>>,
                         Undefined, TRUE))
    ELSE IF IsDefined(params.after_id) /\ IsDefined(params.before_id)
         THEN Some(ToolResult(<<Lit("Error: Specify only one of after_id or before_id, not both.")>>,
                              Undefined, TRUE))
         ELSE <<>>

\* a handler up to its first await: a result at once, or a client call
HandlerStart(tool, params) ==
    LET early == IF tool = "github_reprioritize_sub_issue"
                 THEN ReprioritizeCheck(params) ELSE <<>>
        writes == tool \in WriteTools
    IN  IF early # <<>>
        THEN [result |-> early, call |-> Undefined]
        ELSE [result |-> Undefined,
              call |-> Some([op |-> ClientOp(tool),
                             issue_number |-> params.issue_number,
                             id |-> IF writes THEN params.id ELSE 0,
                             replace_parent |-> IF tool = "github_add_sub_issue"
                                                THEN params.replace_parent
                                                ELSE FALSE,
                             after_id |-> IF tool = "github_reprioritize_sub_issue"
                                          THEN params.after_id ELSE Undefined,
                             before_id |-> IF tool = "github_reprioritize_sub_issue"
                                           THEN params.before_id ELSE Undefined])]

\* a handler from the completion of its client call to its end
HandlerFinish(tool, params, completion) ==
    IF completion.threw THEN Throw(completion.error[1])
    ELSE LET v == completion.value[1]
         IN  Return(CASE tool = "github_get_blocked_by" ->
                             github_get_blocked_by(params, v)
                      [] tool = "github_get_blocking" ->
                             github_get_blocking(params, v)
                      [] tool = "github_list_sub_issues" ->
                             github_list_sub_issues(params, v)
                      [] tool = "github_get_parent_issue" ->
                             github_get_parent_issue(params, v)
                      [] OTHER -> WriteHandler(params, v))

\* ------------------------------------------- tools/call dispatch (McpServer)
\* a tools/call answer: a JSON-RPC result, a JSON-RPC error, or no answer
\* because the process died
RpcResult(result) == [kind |-> "result", isError |-> result.isError,
                      text |-> result.text, structured |-> result.structured]
RpcError(message) == [kind |-> "error", isError |-> FALSE,
                      text |-> message, structured |-> Undefined]
Crash(message) == [kind |-> "crash", isError |-> FALSE,
                   text |-> message, structured |-> Undefined]

createToolError(message) == RpcResult(ToolResult(message, Undefined, TRUE))

\* an unknown tool answered with a JSON-RPC error
ToolNotFound_rpcError(name) ==
    RpcError(<<Lit("Tool "), Lit(name), Lit(" not found")>>)

\* the answer to a call naming no registered tool
ToolNotFound(name) ==
    createToolError(<<Lit("Tool "), Lit(name), Lit(" not found")>>)

\* the answer to a call whose arguments fail the tool's inputSchema
InvalidArguments(name) ==
    createToolError(<<Lit("Input validation error: Invalid arguments for tool "),
                      Lit(name)>>)

\* a handler's exception answered with a JSON-RPC error
HandlerAnswer_rpcError(completion) ==
    IF completion.threw THEN RpcError(<<completion.error[1].message>>)
    ELSE RpcResult(completion.value[1])

\* the answer once the handler has completed (returned or thrown)
HandlerAnswer(completion) ==
    IF completion.threw THEN createToolError(<<completion.error[1].message>>)
    ELSE RpcResult(completion.value[1])

\* what the dispatch does with a tools/call request up to the handler's
\* first await: an answer at once, or a pending client call
tools_call(name, args) ==
    IF name \notin RegisteredTools
    THEN [stage |-> "unknown_tool", answer |-> Some(ToolNotFound(name)),
          params |-> Undefined, call |-> Undefined]
    ELSE LET parsed == InputSchema(name, args)
             start == HandlerStart(name, parsed.data)
         IN  IF ~parsed.ok
             THEN [stage |-> "invalid", answer |-> Some(InvalidArguments(name)),
                   params |-> Undefined, call |-> Undefined]
             ELSE IF IsDefined(start.result)
                  THEN [stage |-> "early",
                        answer |-> Some(HandlerAnswer(Return(start.result[1]))),
                        params |-> Some(parsed.data), call |-> Undefined]
                  ELSE [stage |-> "called", answer |-> Undefined,
                        params |-> Some(parsed.data), call |-> start.call]

\* ---------------------------------------------------------- remote service
FailStatuses == {403, 404, 422, 429, 500}
Failures == {Fail(HttpError(st)) : st \in FailStatuses} \cup {Fail(NetworkError)}

\* what the remote service may answer to a client call
RemoteOutcomes(call) ==
    IF call.issue_number = MissingIssue THEN {Fail(HttpError(404))}
    ELSE
    Failures \cup
    {Ok(CASE call.op \in {"getBlockedBy", "getBlocking", "listSubIssues"} ->
                 remoteList
          [] call.op = "getParentIssue" -> ParentIssue
          [] OTHER -> <<>>)}

\* ------------------------------------------------------------------ inputs
BaseArgs == [issue_number |-> 50, limit |-> Undefined, offset |-> Undefined,
             response_format |-> Undefined, id |-> 0,
             replace_parent |-> Undefined, after_id |-> Undefined,
             before_id |-> Undefined]

OptLimits == {Undefined} \cup
             {Some(l) : l \in {0, 1, 2, MAX_PAGE_SIZE, MAX_PAGE_SIZE + 1}}
OptOffsets == {Undefined} \cup {Some(o) : o \in (-1)..MaxOffset}
OptFormats == {Undefined, Some("json")}

ListArgs == {[BaseArgs EXCEPT !.limit = l, !.offset = o, !.response_format = f] :
                 l \in OptLimits, o \in OptOffsets, f \in OptFormats}
ParentArgs == {[BaseArgs EXCEPT !.issue_number = n, !.response_format = f] :
                  n \in {50, MissingIssue}, f \in OptFormats}
ModifyArgs == {[BaseArgs EXCEPT !.id = i] : i \in {0, 200000001}}
AddSubArgs == {[BaseArgs EXCEPT !.id = 200000001, !.replace_parent = r] :
                   r \in {Undefined, Some(FALSE), Some(TRUE)}}
ReprioritizeArgs == {[BaseArgs EXCEPT !.id = 200000001, !.after_id = a,
                                      !.before_id = b] :
                         a \in {Undefined, Some(200000002)},
                         b \in {Undefined, Some(200000003), Some(0)}}

ToolNames == RegisteredTools \cup {"invalid_tool_name"}

ArgsFor(name) ==
    CASE name \in ListTools -> ListArgs
      [] name = "github_get_parent_issue" -> ParentArgs
      [] name \in DependencyModifyTools \cup {"github_remove_sub_issue"} -> ModifyArgs
      [] name = "github_add_sub_issue" -> AddSubArgs
      [] name = "github_reprioritize_sub_issue" -> ReprioritizeArgs
      [] OTHER -> {BaseArgs}

\* ------------------------------------------------------------ state machine
NoWalk == [tool |-> "", limit |-> Undefined, next |-> 0, acc |-> <<>>,
           done |-> FALSE]

\* a line of the server's stdout, as handleMessage tells lines apart
NoLine == [kind |-> "none", hasId |-> FALSE, id |-> 0, error |-> FALSE]

\* StdioMcpClient after its constructor
SessionStart ==
    /\ messageId = 0
    /\ pendingRequests = <<>>
    /\ isConnected = FALSE
    /\ rlClosed = FALSE
    /\ requests = <<>>
    /\ waiter = <<>>
    /\ timers = {}
    /\ resuming = {}
    /\ written = <<>>
    /\ lastLine = NoLine
    /\ notInitialized = {}

Init ==
    /\ SessionStart
    /\ proc = "starting"
    /\ exitCode = 0
    /\ env \in {Undefined, Some(""), Some("ghp_token")}
    /\ remoteList \in {FullList(n) : n \in 0..MaxItems}
    /\ cur = <<>>
    /\ out = <<>>
    /\ prev = "none"
    /\ walk = NoWalk

\* a loadConfig that only rejects an absent GITHUB_TOKEN
loadConfig_undefinedOnly(environment) ==
    IF ~IsDefined(environment)
    THEN Throw(Lit("GITHUB_TOKEN environment variable is required. "))
    ELSE Return([githubToken |-> environment[1]])

\* config.ts loadConfig: throws when GITHUB_TOKEN is absent or empty
loadConfig(environment) ==
    IF ~IsDefined(environment) \/ environment[1] = ""
    THEN Throw(Lit("GITHUB_TOKEN environment variable is required. "))
    ELSE Return([githubToken |-> environment[1]])

\* index.ts main: createServer() then connect; a throw ends in process.exit(1)
main ==
    /\ proc = "starting"
    /\ IF loadConfig(env).threw
       THEN proc' = "exited" /\ exitCode' = 1
       ELSE proc' = "running" /\ exitCode' = 0
    /\ UNCHANGED <<env, remoteList, cur, out, prev, walk>>
    /\ UNCHANGED sessVars

Exchange(name, args, d, calls, outcome, completion, answer) ==
    [name |-> name, args |-> args, stage |-> d.stage, params |-> d.params,
     calls |-> calls, outcome |-> outcome, completion |-> completion,
     answer |-> answer]

\* a tools/call request arrives and runs up to the handler's first await
Invoke(name, args) ==
    /\ proc = "running"
    /\ cur = <<>>
    /\ out = <<>>
    /\ LET d == tools_call(name, args)
       IN  IF IsDefined(d.answer)
           THEN /\ out' = Some(Exchange(name, args, d,
                                        IF IsDefined(d.call) THEN <<d.call[1]>>
                                        ELSE <<>>,
                                        Undefined, Undefined, d.answer[1]))
                /\ cur' = <<>>
           ELSE /\ cur' = Some([name |-> name, args |-> args, d |-> d])
                /\ out' = <<>>
    /\ UNCHANGED <<proc, exitCode, env, remoteList, prev>>
    /\ UNCHANGED sessVars

\* a Reply that issues the remote call a second time when the first failed
Reply_retry(outcome) ==
    /\ proc = "running"
    /\ cur # <<>>
    /\ LET c == cur[1]
           call == c.d.call[1]
           retried == "retried" \in DOMAIN c
           completion == ClientMethod(call, outcome)
           answer == HandlerAnswer(HandlerFinish(c.name, c.d.params[1], completion))
       IN  /\ outcome \in RemoteOutcomes(call)
           /\ IF ~outcome.ok /\ ~retried
              THEN /\ cur' = Some([name |-> c.name, args |-> c.args, d |-> c.d,
                                   retried |-> TRUE])
                   /\ out' = <<>>
              ELSE /\ cur' = <<>>
                   /\ out' = Some(Exchange(c.name, c.args, c.d,
                                           IF retried THEN <<call, call>>
                                           ELSE <<call>>,
                                           Some(outcome), Some(completion),
                                           answer))
    /\ UNCHANGED <<proc, exitCode, env, remoteList, prev>>
    /\ UNCHANGED sessVars

\* the remote call of the pending invocation completes; the client method,
\* the handler and the dispatch run to the end and the answer is written
Reply(outcome) ==
    /\ proc = "running"
    /\ cur # <<>>
    /\ LET c == cur[1]
           call == c.d.call[1]
           completion == ClientMethod(call, outcome)
           answer == HandlerAnswer(HandlerFinish(c.name, c.d.params[1], completion))
       IN  /\ outcome \in RemoteOutcomes(call)
           /\ out' = Some(Exchange(c.name, c.args, c.d, <<call>>, Some(outcome),
                                   Some(completion), answer))
           /\ IF answer.kind = "crash"
              THEN proc' = "exited" /\ exitCode' = 1
              ELSE UNCHANGED <<proc, exitCode>>
    /\ cur' = <<>>
    /\ UNCHANGED <<env, remoteList, prev>>
    /\ UNCHANGED sessVars

\* how an exchange went, as the caller remembers it
Outcome(x) ==
    IF x.stage # "called" THEN x.stage
    ELSE IF x.outcome[1].ok THEN "ok" ELSE "remote_failed"

\* the caller reads the answer
Read ==
    /\ out # <<>>
    /\ prev' = Outcome(out[1])
    /\ out' = <<>>
    /\ UNCHANGED <<proc, exitCode, env, remoteList, cur>>
    /\ UNCHANGED sessVars

CallTool == \E name \in ToolNames : \E args \in ArgsFor(name) :
                Invoke(name, args) /\ UNCHANGED walk

RemoteReply == /\ cur # <<>>
               /\ \E outcome \in RemoteOutcomes(cur[1].d.call[1]) :
                      Reply(outcome) /\ UNCHANGED walk

ReadResponse == Read /\ UNCHANGED walk

Next == main \/ CallTool \/ RemoteReply \/ ReadResponse

Spec == Init /\ [][Next]_vars

\* ---------------------------------------- a caller following next_offset
\* the items of a list tool's structured payload
ItemsOf(name, data) ==
    CASE name = "github_get_blocked_by" -> data.blocked_by
      [] name = "github_get_blocking" -> data.blocking
      [] OTHER -> data.sub_issues

WalkLimits == {Undefined, Some(1), Some(2), Some(MAX_PAGE_SIZE)}

\* the caller starts at offset 0 (given or defaulted)
WalkStart ==
    /\ walk.tool = "" \/ walk.done
    /\ \E name \in ListTools : \E l \in WalkLimits : \E o \in {Undefined, Some(0)} :
          /\ Invoke(name, [BaseArgs EXCEPT !.limit = l, !.offset = o])
          /\ walk' = [tool |-> name, limit |-> l, next |-> 0, acc |-> <<>>,
                      done |-> FALSE]

\* the caller calls the same tool again with offset = next_offset
WalkContinue ==
    /\ walk.tool # "" /\ ~walk.done
    /\ Len(walk.acc) <= MaxItems + 1
    /\ Invoke(walk.tool, [BaseArgs EXCEPT !.limit = walk.limit,
                                          !.offset = Some(walk.next)])
    /\ UNCHANGED walk

\* the caller reads the page and takes next_offset from it
WalkRead ==
    /\ Read
    /\ LET x == out[1]
       IN  IF x.answer.isError \/ ~IsDefined(x.answer.structured)
           THEN UNCHANGED walk
           ELSE LET data == x.answer.structured[1]
                IN  walk' = [walk EXCEPT
                               !.acc = @ \o ItemsOf(x.name, data),
                               !.next = IF IsDefined(data.next_offset)
                                        THEN data.next_offset[1] ELSE @,
                               !.done = ~data.has_more]

WalkNext == main \/ WalkStart \/ WalkContinue \/ RemoteReply \/ WalkRead

WalkSpec == Init /\ [][WalkNext]_vars

\* ------------------------------------------ the Session (StdioMcpClient)
\* a frame written to stdin: a request carries an id, a notification none
Frame(id, method) == [id |-> id, method |-> method]

\* the lines the server's stdout can carry: blank, not JSON, JSON without an
\* id (or with id null), and a JSON-RPC response with a result or an error
JsonLine(hasId, id, error) ==
    [kind |-> "json", hasId |-> hasId, id |-> id, error |-> error]
Lines == {[kind |-> "blank", hasId |-> FALSE, id |-> 0, error |-> FALSE],
          [kind |-> "text", hasId |-> FALSE, id |-> 0, error |-> FALSE],
          JsonLine(FALSE, 0, FALSE)}
         \cup {JsonLine(TRUE, i, e) : i \in 1..(MaxRequests + 1), e \in BOOLEAN}

\* a promise settles once: resolve or reject after that has no effect
Settle(state, outcome) == IF state = "pending" THEN outcome ELSE state

\* Map.prototype.set and Map.prototype.delete on the pending table
MapSet(map, key, value) ==
    [i \in DOMAIN map \cup {key} |-> IF i = key THEN value ELSE map[i]]
MapDelete(map, key) == [i \in DOMAIN map \ {key} |-> map[i]]

\* an increment whose result is used but not stored back
PreIncrement_notStored(n) == [value |-> n + 1, stored |-> n]

\* ++this.messageId: the value of the expression and the value stored
PreIncrement(n) == [value |-> n + 1, stored |-> n + 1]

\* sendRequest: take the next id, register the waiter, write the frame and
\* arm the 10-second timer, all before the call returns its promise
sendRequest(method) ==
    /\ Len(requests) < MaxRequests
    /\ LET inc == PreIncrement(messageId)
           id == inc.value
           k == Len(requests) + 1
       IN  /\ messageId' = inc.stored
           /\ requests' = Append(requests, [id |-> id, method |-> method])
           /\ waiter' = Append(waiter, "pending")
           /\ pendingRequests' = MapSet(pendingRequests, id, k)
           /\ written' = Append(written, Frame(Some(id), method))
           /\ timers' = timers \cup {k}

\* a handleMessage that settles the oldest pending request, whatever the id
handleMessage_oldest(line) ==
    IF line.kind = "json" /\ line.hasId /\ DOMAIN pendingRequests # {}
    THEN LET id == CHOOSE i \in DOMAIN pendingRequests :
                       \A j \in DOMAIN pendingRequests : i <= j
             k == pendingRequests[id]
         IN  /\ pendingRequests' = MapDelete(pendingRequests, id)
             /\ waiter' = [waiter EXCEPT ![k] =
                             Settle(@, IF line.error THEN "rejected_error"
                                       ELSE "resolved")]
             /\ resuming' = IF /\ requests[k].method = "initialize"
                               /\ waiter[k] = "pending" /\ ~line.error
                            THEN resuming \cup {k} ELSE resuming
    ELSE UNCHANGED <<pendingRequests, waiter, resuming>>

\* handleMessage: a blank line, a line that is not JSON and a message without
\* an id are ignored; a message with an id settles the waiter registered
\* under that id, if there is one, and removes its entry
handleMessage(line) ==
    IF line.kind = "json" /\ line.hasId /\ line.id \in DOMAIN pendingRequests
    THEN LET k == pendingRequests[line.id]
         IN  /\ pendingRequests' = MapDelete(pendingRequests, line.id)
             /\ waiter' = [waiter EXCEPT ![k] =
                             Settle(@, IF line.error THEN "rejected_error"
                                       ELSE "resolved")]
             /\ resuming' = IF /\ requests[k].method = "initialize"
                               /\ waiter[k] = "pending" /\ ~line.error
                            THEN resuming \cup {k} ELSE resuming
    ELSE UNCHANGED <<pendingRequests, waiter, resuming>>

\* the ids a response of the server can carry: the id of a request it has
\* been sent, or an id no request ever has
AnswerableIds == 1..messageId \cup {MaxRequests + 1}

\* a line listener without the try/catch: a line that is not JSON throws
\* out of the listener and no further line is read
OnLine_noCatch ==
    /\ ~rlClosed
    /\ \E line \in Lines :
          /\ line.hasId => line.id \in AnswerableIds
          /\ handleMessage(line)
          /\ lastLine' = line
          /\ rlClosed' = (line.kind = "text")
    /\ UNCHANGED <<messageId, isConnected, requests, timers, written,
                   notInitialized>>
    /\ UNCHANGED serverVars

\* readlineInterface.on('line'): the reader hands over the next line
OnLine ==
    /\ ~rlClosed
    /\ \E line \in Lines :
          /\ line.hasId => line.id \in AnswerableIds
          /\ handleMessage(line)
          /\ lastLine' = line
    /\ UNCHANGED <<messageId, isConnected, rlClosed, requests, timers, written,
                   notInitialized>>
    /\ UNCHANGED serverVars

\* a timer that looks up the latest id instead of its own
OnTimeout_latestId(k) ==
    /\ k \in timers /\ \A j \in timers : k <= j
    /\ timers' = timers \ {k}
    /\ IF messageId \in DOMAIN pendingRequests
       THEN /\ pendingRequests' = MapDelete(pendingRequests, messageId)
            /\ waiter' = [waiter EXCEPT ![k] = Settle(@, "rejected_timeout")]
       ELSE UNCHANGED <<pendingRequests, waiter>>
    /\ UNCHANGED <<messageId, isConnected, rlClosed, requests, resuming,
                   written, lastLine, notInitialized>>
    /\ UNCHANGED serverVars

\* a timer that rejects its waiter but leaves the entry in the table
OnTimeout_keepsEntry(k) ==
    /\ k \in timers /\ \A j \in timers : k <= j
    /\ timers' = timers \ {k}
    /\ IF requests[k].id \in DOMAIN pendingRequests
       THEN /\ waiter' = [waiter EXCEPT ![k] = Settle(@, "rejected_timeout")]
            /\ UNCHANGED pendingRequests
       ELSE UNCHANGED <<pendingRequests, waiter>>
    /\ UNCHANGED <<messageId, isConnected, rlClosed, requests, resuming,
                   written, lastLine, notInitialized>>
    /\ UNCHANGED serverVars

\* the setTimeout callback of request k, 10 seconds after it was sent; timers
\* of one duration fire in the order they were armed
OnTimeout(k) ==
    /\ k \in timers /\ \A j \in timers : k <= j
    /\ timers' = timers \ {k}
    /\ IF requests[k].id \in DOMAIN pendingRequests
       THEN /\ pendingRequests' = MapDelete(pendingRequests, requests[k].id)
            /\ waiter' = [waiter EXCEPT ![k] = Settle(@, "rejected_timeout")]
       ELSE UNCHANGED <<pendingRequests, waiter>>
    /\ UNCHANGED <<messageId, isConnected, rlClosed, requests, resuming,
                   written, lastLine, notInitialized>>
    /\ UNCHANGED serverVars

\* initialize(), up to its await
initialize ==
    /\ sendRequest("initialize")
    /\ UNCHANGED <<isConnected, rlClosed, resuming, lastLine, notInitialized>>
    /\ UNCHANGED serverVars

\* initialize(), after its await was resolved: the notification, then the flag
initializeResume(k) ==
    /\ k \in resuming
    /\ resuming' = resuming \ {k}
    /\ written' = Append(written, Frame(Undefined, "notifications/initialized"))
    /\ isConnected' = TRUE
    /\ UNCHANGED <<messageId, pendingRequests, rlClosed, requests, waiter,
                   timers, lastLine, notInitialized>>
    /\ UNCHANGED serverVars

\* the guarded body listTools and callTool share
GuardedRequest(api, method) ==
    /\ IF ~isConnected
       THEN /\ notInitialized' = notInitialized \cup {api}
            /\ UNCHANGED <<messageId, pendingRequests, requests, waiter,
                           timers, written>>
       ELSE /\ sendRequest(method)
            /\ UNCHANGED notInitialized
    /\ UNCHANGED <<isConnected, rlClosed, resuming, lastLine>>
    /\ UNCHANGED serverVars

listTools == GuardedRequest("listTools", "tools/list")

\* a callTool without the isConnected guard
callTool_unguarded ==
    /\ sendRequest("tools/call")
    /\ UNCHANGED <<isConnected, rlClosed, resuming, lastLine, notInitialized>>
    /\ UNCHANGED serverVars

callTool == GuardedRequest("callTool", "tools/call")

\* a close() that also cancels the timers of the pending requests
close_clearsTimers ==
    /\ rlClosed' = TRUE
    /\ isConnected' = FALSE
    /\ timers' = {}
    /\ UNCHANGED <<messageId, pendingRequests, requests, waiter,
                   resuming, written, lastLine, notInitialized>>
    /\ UNCHANGED serverVars

\* close(): closes the line reader and clears the flag
close ==
    /\ rlClosed' = TRUE
    /\ isConnected' = FALSE
    /\ UNCHANGED <<messageId, pendingRequests, requests, waiter, timers,
                   resuming, written, lastLine, notInitialized>>
    /\ UNCHANGED serverVars

\* the server's stdout ends: the line reader closes by itself
StreamEnd ==
    /\ ~rlClosed
    /\ rlClosed' = TRUE
    /\ UNCHANGED <<messageId, pendingRequests, isConnected, requests, waiter,
                   timers, resuming, written, lastLine, notInitialized>>
    /\ UNCHANGED serverVars

Timeout == \E k \in 1..MaxRequests : OnTimeout(k)
InitializeResume == \E k \in 1..MaxRequests : initializeResume(k)

SessionInit == Init /\ env = Some("ghp_token") /\ remoteList = <<>>

SessionNext == initialize \/ InitializeResume \/ listTools \/ callTool
               \/ OnLine \/ Timeout \/ close \/ StreamEnd

SessionSpec == SessionInit /\ [][SessionNext]_vars

\* the event loop runs every armed timer and every resolved continuation
SessionLive == /\ SessionInit /\ [][SessionNext]_vars
               /\ WF_vars(Timeout)
               /\ WF_vars(InitializeResume)

\* ------------------------------------------- overlapping tool invocations
\* the McpServer starts the handler of every tools/call request as it
\* arrives; here cur holds all the invocations that await their remote call
ConcArgsFor(name) ==
    CASE name \in ListTools ->
             {BaseArgs, [BaseArgs EXCEPT !.limit = Some(1), !.offset = Some(1),
                                         !.response_format = Some("json")]}
      [] name = "github_get_parent_issue" -> ParentArgs
      [] name \in DependencyModifyTools \cup {"github_remove_sub_issue"} ->
             {[BaseArgs EXCEPT !.id = 200000001]}
      [] name = "github_add_sub_issue" ->
             {[BaseArgs EXCEPT !.id = 200000001, !.replace_parent = Some(TRUE)]}
      [] name = "github_reprioritize_sub_issue" ->
             {[BaseArgs EXCEPT !.id = 200000001],
              [BaseArgs EXCEPT !.id = 200000001, !.after_id = Some(200000002)]}
      [] OTHER -> {BaseArgs}

\* an answered exchange together with the invocations still in flight
ConcExchange(x, others) ==
    [name |-> x.name, args |-> x.args, stage |-> x.stage, params |-> x.params,
     calls |-> x.calls, outcome |-> x.outcome, completion |-> x.completion,
     answer |-> x.answer, others |-> others]

RemoveAt(seq, i) == SubSeq(seq, 1, i - 1) \o SubSeq(seq, i + 1, Len(seq))

\* a tools/call request arrives while others may be in flight
ConcInvoke ==
    /\ proc = "running"
    /\ out = <<>>
    /\ Len(cur) < MaxInflight
    /\ \E name \in ToolNames : \E args \in ConcArgsFor(name) :
          LET d == tools_call(name, args)
          IN  IF IsDefined(d.answer)
              THEN /\ out' = Some(ConcExchange(
                                     Exchange(name, args, d, <<>>, Undefined,
                                              Undefined, d.answer[1]), cur))
                   /\ UNCHANGED cur
              ELSE /\ cur' = Append(cur, [name |-> name, args |-> args, d |-> d])
                   /\ out' = <<>>
    /\ UNCHANGED <<proc, exitCode, env, remoteList, prev, walk>>
    /\ UNCHANGED sessVars

\* a completion that finishes the handler with the parameters of the
\* invocation that started last, as a variable shared by the handlers would
ConcReply_sharedParams(i, outcome) ==
    /\ proc = "running"
    /\ out = <<>>
    /\ i \in 1..Len(cur)
    /\ LET c == cur[i]
           call == c.d.call[1]
           completion == ClientMethod(call, outcome)
           answer == HandlerAnswer(HandlerFinish(c.name,
                                                 cur[Len(cur)].d.params[1],
                                                 completion))
       IN  /\ outcome \in RemoteOutcomes(call)
           /\ out' = Some(ConcExchange(
                             Exchange(c.name, c.args, c.d, <<call>>,
                                      Some(outcome), Some(completion), answer),
                             RemoveAt(cur, i)))
           /\ IF answer.kind = "crash"
              THEN proc' = "exited" /\ exitCode' = 1
              ELSE UNCHANGED <<proc, exitCode>>
    /\ cur' = RemoveAt(cur, i)
    /\ UNCHANGED <<env, remoteList, prev, walk>>
    /\ UNCHANGED sessVars

\* the remote call of the i-th invocation in flight completes, in any order;
\* its handler resumes with the params and the client call of its own closure
ConcReply(i, outcome) ==
    /\ proc = "running"
    /\ out = <<>>
    /\ i \in 1..Len(cur)
    /\ LET c == cur[i]
           call == c.d.call[1]
           completion == ClientMethod(call, outcome)
           answer == HandlerAnswer(HandlerFinish(c.name, c.d.params[1],
                                                 completion))
       IN  /\ outcome \in RemoteOutcomes(call)
           /\ out' = Some(ConcExchange(
                             Exchange(c.name, c.args, c.d, <<call>>,
                                      Some(outcome), Some(completion), answer),
                             RemoveAt(cur, i)))
           /\ IF answer.kind = "crash"
              THEN proc' = "exited" /\ exitCode' = 1
              ELSE UNCHANGED <<proc, exitCode>>
    /\ cur' = RemoveAt(cur, i)
    /\ UNCHANGED <<env, remoteList, prev, walk>>
    /\ UNCHANGED sessVars

ConcRemoteReply ==
    \E i \in 1..MaxInflight :
        /\ i <= Len(cur)
        /\ \E outcome \in RemoteOutcomes(cur[i].d.call[1]) : ConcReply(i, outcome)

\* the caller takes the answer off the wire
ConcRead ==
    /\ out # <<>>
    /\ out' = <<>>
    /\ UNCHANGED <<proc, exitCode, env, remoteList, cur, prev, walk>>
    /\ UNCHANGED sessVars

ConcInit == Init /\ env = Some("ghp_token") /\ remoteList = FullList(2)

ConcNext == main \/ ConcInvoke \/ ConcRemoteReply \/ ConcRead

ConcSpec == ConcInit /\ [][ConcNext]_vars

\* ================================================================== claims
Answered == out # <<>>
X == out[1]
RemoteFailed == Answered /\ X.stage = "called" /\ ~X.outcome[1].ok
RemoteOk == Answered /\ X.stage = "called" /\ X.outcome[1].ok
ListAnswered == RemoteOk /\ X.name \in ListTools
Envelope == X.answer.structured[1]
P == X.params[1]
Is404(outcome) == ~outcome.ok /\ outcome.error[1].hasStatus
                  /\ outcome.error[1].status = 404

\* C1: for a full list of size n, an accepted offset and limit, a list tool's
\* envelope has total = n, count = max(0, min(limit, n - offset)) and
\* has_more exactly when offset + count < n.
C1_PaginationCounts ==
    ListAnswered =>
        LET n == Len(remoteList)
        IN  /\ P.offset >= 0 /\ P.limit >= 1 /\ P.limit <= MAX_PAGE_SIZE
            /\ Envelope.total = n
            /\ Envelope.count = Max(0, Min(P.limit, n - P.offset))
            /\ Len(ItemsOf(X.name, Envelope)) = Envelope.count
            /\ Envelope.has_more <=> (P.offset + Envelope.count < n)

C1_Witness ==
    /\ ListAnswered
    /\ P.offset > 0
    /\ Envelope.has_more
    /\ Envelope.count < Envelope.total

\* C2: next_offset is present exactly when has_more is true and then equals
\* offset + count; a caller that starts at offset 0 and re-invokes the tool
\* with offset = next_offset until has_more is false has received every
\* element of the full list exactly once, in the original order.
C2_NextOffsetWalk ==
    /\ \A o \in 0..MaxOffset : \A l \in {1, 2, DEFAULT_PAGE_SIZE, MAX_PAGE_SIZE} :
          LET pg == applyPagination(remoteList, o, l)
          IN  /\ IsDefined(pg.next_offset) <=> pg.has_more
              /\ pg.has_more => pg.next_offset[1] = o + pg.count
    /\ ListAnswered =>
          /\ IsDefined(Envelope.next_offset) <=> Envelope.has_more
          /\ Envelope.has_more => Envelope.next_offset[1] = P.offset + Envelope.count
          /\ ItemsOf(X.name, Envelope)
                = JsSlice(remoteList, walk.next, walk.next + Envelope.count)
    /\ ~walk.done => walk.next = Len(walk.acc)
    /\ walk.acc = JsSlice(remoteList, 0, Len(walk.acc))
    /\ walk.done => walk.acc = remoteList

C2_Witness ==
    /\ walk.done
    /\ walk.limit = Some(1)
    /\ Len(walk.acc) >= 3
    /\ walk.acc = remoteList

\* C3 as stated: every envelope satisfies offset + count <= total.
C3_Original ==
    ListAnswered => Envelope.offset + Envelope.count <= Envelope.total

\* C3 amended: offset + count <= max(offset, total): the bound holds when the
\* requested offset is at most total; beyond it the envelope echoes the
\* requested offset with an empty page.
C3_OffsetCountBound ==
    ListAnswered =>
        /\ Envelope.offset = P.offset
        /\ Envelope.count <= Envelope.total
        /\ Envelope.offset <= Envelope.total
              => Envelope.offset + Envelope.count <= Envelope.total
        /\ Envelope.offset > Envelope.total
              => Envelope.count = 0 /\ ~Envelope.has_more

C3_Witness ==
    /\ ListAnswered
    /\ Envelope.total > 0
    /\ Envelope.offset > Envelope.total
    /\ Envelope.count = 0

\* C4: a list-tool call whose limit is outside 1..100 or whose offset is
\* negative is answered with an error result; the value is not clamped into
\* range and the Relation Client is not invoked.
OutOfRange(args) ==
    \/ IsDefined(args.limit) /\ (args.limit[1] < 1 \/ args.limit[1] > MAX_PAGE_SIZE)
    \/ IsDefined(args.offset) /\ args.offset[1] < 0

C4_OutOfRangeRejected ==
    /\ (cur # <<>> /\ cur[1].name \in ListTools) => ~OutOfRange(cur[1].args)
    /\ (Answered /\ X.name \in ListTools /\ OutOfRange(X.args)) =>
          /\ X.answer.kind \in {"result", "error"}
          /\ X.answer.kind = "result" => X.answer.isError
          /\ X.answer.text # <<>>
          /\ ~IsDefined(X.answer.structured)
          /\ ~IsDefined(X.params)
          /\ X.calls = <<>>

C4_Witness ==
    /\ Answered
    /\ X.name = "github_get_blocked_by"
    /\ X.args.limit = Some(MAX_PAGE_SIZE + 1)
    /\ X.args.offset = Undefined
    /\ X.answer.isError

\* C5: github_reprioritize_sub_issue with neither or both of after_id and
\* before_id answers isError = true with a text, and reprioritizeSubIssue is
\* never invoked for that call.
NotExactlyOne(args) == IsDefined(args.after_id) <=> IsDefined(args.before_id)

C5_ReprioritizeExactlyOne ==
    /\ (cur # <<>> /\ cur[1].name = "github_reprioritize_sub_issue")
          => ~NotExactlyOne(cur[1].args)
    /\ (Answered /\ X.name = "github_reprioritize_sub_issue"
          /\ NotExactlyOne(X.args)) =>
          /\ X.answer.kind = "result"
          /\ X.answer.isError
          /\ X.answer.text # <<>>
          /\ X.calls = <<>>

C5_Witness ==
    /\ Answered
    /\ X.name = "github_reprioritize_sub_issue"
    /\ X.stage = "early"
    /\ IsDefined(X.args.after_id) /\ IsDefined(X.args.before_id)
    /\ X.answer.isError

\* C6: when the remote get-parent call fails with 404, getParentIssue returns
\* null and github_get_parent_issue answers a non-error result saying the
\* issue has no parent, with parent = null and has_parent = false.
C6_ParentNotFoundIsAbsent ==
    (RemoteFailed /\ X.name = "github_get_parent_issue" /\ Is404(X.outcome[1])) =>
        /\ X.completion[1] = Return(Null)
        /\ X.answer.kind = "result"
        /\ ~X.answer.isError
        /\ Contains(X.answer.text, Lit(" has no parent issue."))
        /\ IsDefined(X.answer.structured)
        /\ X.answer.structured[1].parent = Null
        /\ X.answer.structured[1].has_parent = FALSE

C6_Witness ==
    /\ RemoteFailed
    /\ X.name = "github_get_parent_issue"
    /\ Is404(X.outcome[1])
    /\ ~X.answer.isError

\* C7: a getParentIssue failure other than 404 is re-thrown unchanged, and
\* every remote failure of the other eight client operations propagates:
\* the 404 of get-parent is the only failure turned into a returned value.
C7_OnlyParent404Normalized ==
    RemoteFailed =>
        LET normalized == X.calls[1].op = "getParentIssue" /\ Is404(X.outcome[1])
        IN  /\ ~normalized => X.completion[1] = Throw(X.outcome[1].error[1])
            /\ ~X.completion[1].threw => normalized

C7_Witness ==
    /\ RemoteFailed
    /\ X.calls[1].op = "getParentIssue"
    /\ X.outcome[1] = Fail(HttpError(500))
    /\ X.completion[1].threw

\* C8 as stated: whenever the remote call of a tool fails, the answer is a
\* JSON-RPC result with isError = true and a text.
C8_Original ==
    RemoteFailed =>
        /\ X.answer.kind = "result"
        /\ X.answer.isError
        /\ X.answer.text # <<>>

\* C8 amended: whenever the remote call of a tool fails, the answer is a
\* JSON-RPC result (never a JSON-RPC error, never a crash) with a text; it
\* carries isError = true except for the 404 of get-parent, which is answered
\* as a non-error "no parent" result; the server stays up afterwards.
C8_RemoteFailureIsToolError ==
    /\ RemoteFailed =>
          /\ X.answer.kind = "result"
          /\ X.answer.text # <<>>
          /\ X.answer.isError <=>
                ~(X.name = "github_get_parent_issue" /\ Is404(X.outcome[1]))
          /\ proc = "running"
    /\ prev = "remote_failed" => proc = "running"

C8_Witness ==
    /\ prev = "remote_failed"
    /\ RemoteFailed
    /\ X.name = "github_get_blocked_by"
    /\ Is404(X.outcome[1])
    /\ X.answer.isError

\* C9: a tools/call naming none of the nine registered tools is answered with
\* a tool-level error whose text contains "not found"; no client operation
\* is invoked and the server stays up for later requests.
C9_UnknownTool ==
    /\ Cardinality(RegisteredTools) = 9
    /\ cur # <<>> => cur[1].name \in RegisteredTools
    /\ (Answered /\ X.name \notin RegisteredTools) =>
          /\ X.answer.kind = "result"
          /\ X.answer.isError
          /\ Contains(X.answer.text, Lit(" not found"))
          /\ X.calls = <<>>
          /\ proc = "running"
    /\ prev = "unknown_tool" => proc = "running"

C9_Witness ==
    /\ prev = "unknown_tool"
    /\ RemoteOk
    /\ ~X.answer.isError

\* C10: a write tool answers its confirmation sentence only if its remote
\* call succeeded; when the remote call fails the answer is an error without
\* a confirmation.
ConfirmationMarkers ==
    {Lit(" is now blocked by issue ID "),
     Lit("Removed blocking dependency: issue ID "),
     Lit(" is now a sub-issue of #"),
     Lit(" is no longer a sub-issue of #"),
     Lit(" moved ")}
IsConfirmation(text) == \E m \in ConfirmationMarkers : Contains(text, m)

C10_ConfirmationOnlyOnSuccess ==
    (Answered /\ X.name \in WriteTools) =>
        /\ IsConfirmation(X.answer.text) => (X.stage = "called" /\ X.outcome[1].ok)
        /\ RemoteOk => (IsConfirmation(X.answer.text) /\ ~X.answer.isError)
        /\ RemoteFailed => (X.answer.isError /\ ~IsConfirmation(X.answer.text))

C10_Witness ==
    /\ RemoteFailed
    /\ X.name = "github_add_sub_issue"
    /\ X.args.replace_parent = Undefined
    /\ X.calls[1].replace_parent = FALSE
    /\ X.outcome[1] = Fail(HttpError(422))
    /\ X.answer.isError

\* ------------------------------------------------ size cap and empty lists
\* the fixed sentence a list tool answers for an empty relationship
EmptySentence(name, issue_number) ==
    <<Lit("Issue #"), Num(issue_number), Lit(" in owner/repo"),
      Lit(CASE name = "github_get_blocked_by" -> " is not blocked by any issues."
            [] name = "github_get_blocking" -> " is not blocking any issues."
            [] OTHER -> " has no sub-issues.")>>

\* C11: when the full list is empty a list tool answers the fixed
\* empty-relationship sentence and an envelope with total = 0, count = 0,
\* has_more = false and no next_offset, whatever response_format, limit and
\* offset were accepted.
C11_EmptyListShortcut ==
    (ListAnswered /\ remoteList = <<>>) =>
        /\ X.answer.kind = "result" /\ ~X.answer.isError
        /\ X.answer.text = EmptySentence(X.name, P.issue_number)
        /\ Envelope.total = 0
        /\ Envelope.count = 0
        /\ ~Envelope.has_more
        /\ Envelope.next_offset = Undefined
        /\ ItemsOf(X.name, Envelope) = <<>>

C11_Witness ==
    /\ ListAnswered /\ remoteList = <<>>
    /\ X.name = "github_get_blocked_by"
    /\ P.response_format = "json"
    /\ P.offset > 0
    /\ P.limit = 1

\* the numbers printed in a text between two given literals
PrintedBetween(text, lead, after) ==
    {text[i + 1].num : i \in {j \in 1..(Len(text) - 2) :
                                 /\ text[j] = lead
                                 /\ text[j + 1].lit = "#"
                                 /\ text[j + 2] = after}}

PrintedTotal(name, text) ==
    CASE name = "github_get_blocked_by" ->
             PrintedBetween(text, Lit("Found "), Lit(" blocking issue(s)"))
      [] name = "github_get_blocking" ->
             PrintedBetween(text, Lit("Blocking "), Lit(" issue(s)"))
      [] OTHER -> PrintedBetween(text, Lit("\n\n"), Lit(" sub-issue(s)"))

PrintedCount(text) == PrintedBetween(text, Lit(" (showing "), Lit(")"))

OtherFormat(format) == IF format = "json" THEN "markdown" ELSE "json"

ReadTools == ListTools \cup {"github_get_parent_issue"}
ReadAnswered == /\ Answered /\ X.stage = "called" /\ X.name \in ReadTools
                /\ ~X.completion[1].threw

\* C12: a read tool's structured payload is the same whether markdown or
\* json was requested, and the total (and the count, where shown) printed in
\* the human text equal the payload's total and count.
C12_FormatsAgree ==
    /\ ReadAnswered =>
          X.answer.structured
            = HandlerFinish(X.name,
                            [P EXCEPT !.response_format = OtherFormat(@)],
                            X.completion[1]).value[1].structured
    /\ (ListAnswered /\ remoteList # <<>>) =>
          IF P.response_format = "markdown"
          THEN /\ PrintedTotal(X.name, X.answer.text) = {Envelope.total}
               /\ PrintedCount(X.answer.text) \subseteq {Envelope.count}
               /\ Envelope.has_more =>
                      PrintedCount(X.answer.text) = {Envelope.count}
          ELSE X.answer.text[1].lit = "json" =>
                   /\ X.answer.text[1].value.total = Envelope.total
                   /\ X.answer.text[1].value.count = Envelope.count

C12_Witness ==
    /\ ListAnswered
    /\ X.name = "github_get_blocking"
    /\ P.response_format = "markdown"
    /\ Envelope.has_more
    /\ Envelope.count < Envelope.total
    /\ PrintedCount(X.answer.text) = {Envelope.count}

\* a text that ends with the truncation notice, and what precedes the notice
Truncated(text) == text # <<>> /\ text[Len(text)] = TruncationNotice
BeforeNotice(text) == SubSeq(text, 1, Len(text) - 1)

\* C13: formatResponse returns the rendered text unchanged when it is at
\* most 25,000 characters long and otherwise exactly its first 25,000
\* characters followed by the fixed truncation notice; the structured
\* payload is the untruncated data and its pagination fields are unaffected.
C13_SizeCap ==
    /\ \A format \in {"markdown", "json"} : \A numbered \in BOOLEAN :
       \A k \in 0..Len(remoteList) :
          LET issues == SubSeq(remoteList, 1, k)
              data == applyPagination(remoteList, 0, Max(k, 1))
              markdown == formatIssueListAsMarkdown(issues, numbered)
              rendered == IF format = "json" THEN JsonStringify(data, issues)
                          ELSE markdown
              r == formatResponse(data, issues, format, markdown)
          IN  /\ r.structuredContent = data
              /\ TextLen(rendered) <= CHARACTER_LIMIT => r.text = rendered
              /\ TextLen(rendered) > CHARACTER_LIMIT =>
                    /\ Truncated(r.text)
                    /\ TextLen(BeforeNotice(r.text)) = CHARACTER_LIMIT
                    /\ BeforeNotice(r.text) = TextSlice(rendered, CHARACTER_LIMIT)
                    /\ TextLen(r.text)
                         = CHARACTER_LIMIT + TokLen(TruncationNotice)
    /\ (ListAnswered /\ remoteList # <<>>) =>
          LET pg == applyPagination(remoteList, P.offset, P.limit)
          IN  /\ IF Truncated(X.answer.text)
                 THEN TextLen(BeforeNotice(X.answer.text)) = CHARACTER_LIMIT
                 ELSE TextLen(X.answer.text) <= CHARACTER_LIMIT
              /\ ItemsOf(X.name, Envelope) = pg.items
              /\ Envelope.total = pg.total /\ Envelope.count = pg.count
              /\ Envelope.offset = pg.offset
              /\ Envelope.has_more = pg.has_more
              /\ Envelope.next_offset = pg.next_offset

C13_Witness ==
    /\ ListAnswered
    /\ Truncated(X.answer.text)
    /\ Envelope.count = 2
    /\ ItemsOf(X.name, Envelope)[2].titleLen = LongTitle

\* the next_offset trailer of a list tool's markdown text
TrailerLead == Lit("\n\n*More results available. Use offset=")
TrailerOffsets(text) ==
    {text[i + 1].num : i \in {j \in 1..(Len(text) - 1) : text[j] = TrailerLead}}
MarkdownListAnswered == /\ ListAnswered /\ remoteList # <<>>
                        /\ P.response_format = "markdown"

\* C14 as stated: a list tool's markdown text that was truncated by the cap
\* contains a trailer naming the next_offset to continue from.
C14_Original ==
    (MarkdownListAnswered /\ Truncated(X.answer.text)) =>
        TrailerOffsets(X.answer.text) # {}

\* C14 amended: the trailer naming next_offset is rendered at the end of the
\* markdown text exactly when has_more is true; a text truncated by the cap
\* is the first 25,000 characters followed by the fixed notice, truncation
\* adds no trailer, and a trailer that remains names the payload's
\* next_offset; the payload keeps next_offset either way.
C14_TrailerOnlyWithHasMore ==
    MarkdownListAnswered =>
        /\ TrailerOffsets(X.answer.text) # {} =>
              /\ Envelope.has_more
              /\ TrailerOffsets(X.answer.text) = {Envelope.next_offset[1]}
        /\ IF Truncated(X.answer.text)
           THEN /\ TextLen(BeforeNotice(X.answer.text)) = CHARACTER_LIMIT
                /\ ~Contains(BeforeNotice(X.answer.text), TruncationNotice)
           ELSE Envelope.has_more => TrailerOffsets(X.answer.text) # {}
        /\ Envelope.has_more => IsDefined(Envelope.next_offset)

C14_Witness ==
    /\ MarkdownListAnswered
    /\ Truncated(X.answer.text)
    /\ Envelope.has_more
    /\ TrailerOffsets(X.answer.text) = {}
    /\ Envelope.next_offset = Some(P.offset + 2)

\* C15: with GITHUB_TOKEN absent or empty the process never runs: it exits
\* with a non-zero status before any request is accepted, so no invocation
\* is ever pending, answered or read.
TokenMissing == ~IsDefined(env) \/ env[1] = ""
C15_MissingTokenFailsStartup ==
    TokenMissing =>
        /\ proc \in {"starting", "exited"}
        /\ proc = "exited" => exitCode # 0
        /\ cur = <<>> /\ out = <<>> /\ prev = "none"

C15_Witness ==
    /\ env = Some("")
    /\ proc = "exited"
    /\ exitCode = 1

\* ------------------------------------------------------------- the Session
Sent == 1..Len(requests)
IsPending(k) == /\ requests[k].id \in DOMAIN pendingRequests
                /\ pendingRequests[requests[k].id] = k
\* the step hands the given line to handleMessage
Handles(line) == /\ ~rlClosed
                 /\ line.hasId => line.id \in AnswerableIds
                 /\ handleMessage(line)
                 /\ lastLine' = line
                 /\ UNCHANGED <<messageId, isConnected, rlClosed, requests,
                                timers, written, notInitialized>>
IsResponseFor(line, k) == line.kind = "json" /\ line.hasId
                          /\ line.id = requests[k].id

\* C16: request ids are handed out in the sending step itself, the first is
\* 1, each later one is greater than every earlier one, and no two requests
\* share an id.
C16_RequestIds ==
    /\ requests # <<>> => requests[1].id = 1
    /\ \A j \in Sent : \A k \in Sent : j < k => requests[j].id < requests[k].id
    /\ \A k \in Sent : requests[k].id <= messageId
    /\ \A id \in DOMAIN pendingRequests :
          pendingRequests[id] \in Sent /\ requests[pendingRequests[id]].id = id
    /\ \A k \in Sent : waiter[k] = "pending" => IsPending(k)
    /\ \A k \in Sent : \E i \in 1..Len(written) :
          written[i] = Frame(Some(requests[k].id), requests[k].method)

C16_Witness ==
    /\ Len(requests) = MaxRequests
    /\ requests[MaxRequests].id = MaxRequests
    /\ Cardinality(DOMAIN pendingRequests) >= 2

\* C17: a response carrying id i settles exactly the waiter registered under
\* i, in whatever order responses arrive, removes that entry only and leaves
\* every other waiter and entry untouched.
C17_ResponseSettlesItsWaiter ==
    [][ /\ \A k \in Sent :
              (waiter'[k] # waiter[k]
                 /\ waiter'[k] \in {"resolved", "rejected_error"}) =>
                  /\ IsResponseFor(lastLine', k)
                  /\ lastLine'.error <=> waiter'[k] = "rejected_error"
                  /\ pendingRequests'
                       = MapDelete(pendingRequests, requests[k].id)
                  /\ \A j \in Sent \ {k} : waiter'[j] = waiter[j]
        /\ \A line \in Lines :
              (Handles(line) /\ line.kind = "json" /\ line.hasId
                 /\ line.id \in DOMAIN pendingRequests) =>
                  /\ waiter'[pendingRequests[line.id]]
                       = (IF line.error THEN "rejected_error" ELSE "resolved")
                  /\ DOMAIN pendingRequests'
                       = DOMAIN pendingRequests \ {line.id}
                  /\ \A i \in DOMAIN pendingRequests' :
                        pendingRequests'[i] = pendingRequests[i]
      ]_vars

C17_Witness ==
    \E j \in Sent : \E k \in Sent :
        /\ j < k
        /\ waiter[j] = "pending" /\ IsPending(j)
        /\ waiter[k] = "resolved"
        /\ lastLine = JsonLine(TRUE, requests[k].id, FALSE)

\* C18: when the timer of a request fires while the request is pending, its
\* entry is removed and its waiter rejected with the timeout error; a
\* response that arrives for that id afterwards settles nothing and changes
\* no state.
C18_TimeoutThenIgnored ==
    /\ [](\A k \in Sent :
            /\ waiter[k] = "rejected_timeout" =>
                  requests[k].id \notin DOMAIN pendingRequests /\ k \notin timers
            /\ waiter[k] = "pending" => k \in timers)
    /\ [][ /\ \A k \in Sent :
                 (k \in timers /\ k \notin timers' /\ waiter[k] = "pending") =>
                     /\ waiter'[k] = "rejected_timeout"
                     /\ pendingRequests'
                          = MapDelete(pendingRequests, requests[k].id)
                     /\ \A j \in Sent \ {k} : waiter'[j] = waiter[j]
           /\ \A line \in Lines : \A k \in Sent :
                 (Handles(line) /\ IsResponseFor(line, k)
                    /\ waiter[k] = "rejected_timeout") =>
                     UNCHANGED <<messageId, pendingRequests, isConnected,
                                 rlClosed, requests, waiter, timers, resuming,
                                 written, notInitialized>>
         ]_vars

C18_Witness ==
    \E k \in Sent :
        /\ waiter[k] = "rejected_timeout"
        /\ lastLine = JsonLine(TRUE, requests[k].id, FALSE)
        /\ requests[k].id \notin DOMAIN pendingRequests

InitializedFrames ==
    {i \in 1..Len(written) : written[i].method = "notifications/initialized"}
ResolvedInitializes ==
    {k \in Sent : requests[k].method = "initialize" /\ waiter[k] = "resolved"}

\* C20: listTools and callTool write a frame only once initialize() has
\* completed and otherwise fail without writing one; the session becomes
\* ready only after the initialize response was received; the 'initialized'
\* notification is written only after that response and never gets an entry
\* in the pending table.
C20_ReadyAfterInitialize ==
    /\ [](/\ \A i \in 1..Len(written) :
               written[i].method \in {"tools/list", "tools/call"} =>
                   \E j \in InitializedFrames : j < i
          /\ isConnected => ResolvedInitializes # {}
          /\ Cardinality(InitializedFrames) + Cardinality(resuming)
               = Cardinality(ResolvedInitializes)
          /\ \A i \in InitializedFrames : written[i].id = Undefined
          /\ \A k \in Sent :
               requests[k].method \in {"initialize", "tools/list", "tools/call"})
    /\ [][ notInitialized' # notInitialized =>
              /\ ~isConnected
              /\ UNCHANGED <<messageId, pendingRequests, isConnected, requests,
                             waiter, timers, written>>
         ]_vars

C20_Witness ==
    /\ notInitialized = {"listTools", "callTool"}
    /\ isConnected
    /\ \E i \in 1..Len(written) : written[i].method = "tools/call"

\* --------------------------------------------- tool contracts, continued
ParentAnswered == /\ Answered /\ X.name = "github_get_parent_issue"
                  /\ X.stage = "called"

\* C21 as stated: github_get_parent_issue on an issue that does not exist
\* (the remote answers 404 for the issue itself) is answered with an error,
\* and a null parent is answered only for an issue that exists.
C21_Original ==
    ParentAnswered =>
        /\ P.issue_number = MissingIssue => X.answer.isError
        /\ (~X.answer.isError /\ IsDefined(X.answer.structured)
              /\ Envelope.parent = Null) => P.issue_number # MissingIssue

\* C22: an invocation issues at most one remote call; a list tool issues
\* exactly one, the same whatever limit and offset are, and receives the
\* full list; a failed remote call is not issued again and the invocation is
\* answered in the step in which the failure arrives.
C22_OneRemoteCall ==
    /\ Answered =>
          /\ Len(X.calls) <= 1
          /\ X.stage = "called" <=> Len(X.calls) = 1
          /\ cur = <<>>
    /\ (Answered /\ X.name \in ListTools /\ X.stage = "called") =>
          /\ X.calls[1] = HandlerStart(X.name,
                                       [P EXCEPT !.limit = DEFAULT_PAGE_SIZE,
                                                 !.offset = 0]).call[1]
          /\ X.outcome[1].ok =>
                /\ X.completion[1].value[1] = remoteList
                /\ Envelope.total = Len(remoteList)
    /\ RemoteFailed =>
          /\ Len(X.calls) = 1
          /\ X.completion[1].threw => X.answer.isError

C22_Witness ==
    /\ RemoteFailed
    /\ X.name = "github_list_sub_issues"
    /\ P.limit = 1 /\ P.offset = 2
    /\ X.answer.isError
    /\ Len(X.calls) = 1

\* C23: the fixed empty-relationship sentence is answered exactly when the
\* full list is empty; an offset at or beyond the total of a non-empty list
\* is answered, without error, with the normal rendering, an empty slice,
\* count = 0, the true total, has_more = false and no next_offset.
C23_ShortcutOnlyForEmptyList ==
    ListAnswered =>
        /\ X.answer.text = EmptySentence(X.name, P.issue_number)
              <=> remoteList = <<>>
        /\ (remoteList # <<>> /\ P.offset >= Len(remoteList)) =>
              /\ X.answer.kind = "result" /\ ~X.answer.isError
              /\ ItemsOf(X.name, Envelope) = <<>>
              /\ Envelope.count = 0
              /\ Envelope.total = Len(remoteList)
              /\ ~Envelope.has_more
              /\ Envelope.next_offset = Undefined
              /\ P.response_format = "markdown" =>
                    /\ PrintedTotal(X.name, X.answer.text) = {Len(remoteList)}
                    /\ PrintedCount(X.answer.text) = {}
                    /\ TrailerOffsets(X.answer.text) = {}
              /\ P.response_format = "json" =>
                    X.answer.text = JsonStringify(Envelope, <<>>)

C23_Witness ==
    /\ ListAnswered
    /\ X.name = "github_list_sub_issues"
    /\ Len(remoteList) = MaxItems
    /\ P.offset = Len(remoteList)
    /\ P.response_format = "markdown"
    /\ Envelope.count = 0

\* the numbers printed before the children of a sub-issue listing, with the
\* issue number that follows each
NumberedLines(text) ==
    {<<text[j].num, text[j + 2].num>> :
        j \in {i \in 1..(Len(text) - 2) : /\ text[i].lit = "#"
                                          /\ text[i + 1] = Lit(". #")
                                          /\ text[i + 2].lit = "#"}}

SubIssuesMarkdown == /\ ListAnswered /\ X.name = "github_list_sub_issues"
                     /\ remoteList # <<>> /\ P.response_format = "markdown"
                     /\ ~Truncated(X.answer.text)

\* C24 as stated: in the markdown text of github_list_sub_issues the number
\* printed before each child is its 1-based position in the parent's
\* priority order, for every accepted offset and limit.
C24_Original ==
    SubIssuesMarkdown =>
        NumberedLines(X.answer.text)
          = {<<i, remoteList[i].number>> :
                i \in (P.offset + 1)..(P.offset + Envelope.count)}

ReprioritizeOne ==
    /\ Answered /\ X.name = "github_reprioritize_sub_issue"
    /\ IsDefined(X.params)
    /\ IsDefined(P.after_id) # IsDefined(P.before_id)

\* C25: github_reprioritize_sub_issue with exactly one of after_id and
\* before_id calls the Relation Client once, forwarding the identifier that
\* was supplied and leaving the other undefined, and the confirmation names
\* the same direction and the same identifier.
C25_ReprioritizeForwarding ==
    ReprioritizeOne =>
        /\ X.stage = "called"
        /\ Len(X.calls) = 1
        /\ X.calls[1].op = "reprioritizeSubIssue"
        /\ X.calls[1].id = X.args.id
        /\ X.calls[1].after_id = X.args.after_id
        /\ X.calls[1].before_id = X.args.before_id
        /\ X.outcome[1].ok =>
              /\ ~X.answer.isError
              /\ X.answer.text
                   = <<Lit("Sub-issue ID "), Num(X.args.id), Lit(" moved ")>>
                     \o (IF IsDefined(X.args.after_id)
                         THEN <<Lit("after issue ID "), Num(X.args.after_id[1])>>
                         ELSE <<Lit("before issue ID "),
                                Num(X.args.before_id[1])>>)

C25_Witness ==
    /\ ReprioritizeOne
    /\ RemoteOk
    /\ X.args.after_id = Undefined
    /\ X.args.before_id = Some(200000003)
    /\ Contains(X.answer.text, Lit("before issue ID "))

\* ------------------------------------------------- the Session, continued
TimerFires(k) == k \in timers /\ k \notin timers'

\* C26: a waiter is settled at most once: once it is resolved, rejected by
\* an error response or rejected by its timeout, a duplicate or late response
\* with its id and its own timer firing later change neither that waiter nor
\* any waiter or entry of another id.
C26_SettledAtMostOnce ==
    [][ \A k \in Sent :
           waiter[k] # "pending" =>
               /\ waiter'[k] = waiter[k]
               /\ requests[k].id \notin DOMAIN pendingRequests
               /\ TimerFires(k) =>
                     UNCHANGED <<pendingRequests, waiter, resuming>>
               /\ \A line \in Lines :
                     (Handles(line) /\ IsResponseFor(line, k)) =>
                         UNCHANGED <<pendingRequests, waiter, resuming>>
      ]_vars

C26_Witness ==
    \E k \in Sent : \E j \in Sent :
        /\ waiter[k] = "resolved"
        /\ k \notin timers
        /\ lastLine = JsonLine(TRUE, requests[k].id, TRUE)
        /\ j # k /\ waiter[j] = "pending" /\ IsPending(j)

\* C27: every request sent is eventually settled, by a response or by its
\* own timer, and the pending table eventually becomes empty, even if no
\* response ever arrives or the session was closed while requests were
\* pending.
C27_EventuallySettled ==
    /\ \A k \in 1..MaxRequests :
          (Len(requests) >= k) ~>
              (/\ Len(requests) >= k
               /\ waiter[k] # "pending"
               /\ requests[k].id \notin DOMAIN pendingRequests)
    /\ (pendingRequests # <<>>) ~> (pendingRequests = <<>>)
    /\ (rlClosed /\ pendingRequests # <<>>) ~> (pendingRequests = <<>>)

C27_Witness ==
    /\ rlClosed
    /\ lastLine = NoLine
    /\ Len(requests) = MaxRequests
    /\ pendingRequests = <<>>
    /\ \A k \in Sent : waiter[k] = "rejected_timeout"

\* C28 as stated: closed is terminal: once the session is closed and not
\* ready it stays closed, it never becomes ready again, and no request of
\* listTools or callTool is written.
C28_Original ==
    [][ (rlClosed /\ ~isConnected) =>
           /\ rlClosed'
           /\ ~isConnected'
           /\ Len(written') > Len(written) =>
                 written'[Len(written')].method
                    \notin {"tools/list", "tools/call"}
      ]_vars

\* the lines handleMessage has nothing to do for
Ignored(line) == \/ line.kind # "json"
                 \/ ~line.hasId
                 \/ line.id \notin DOMAIN pendingRequests

\* C29: a line that is blank, is not JSON, carries no id or carries an id
\* that is not in the pending table is ignored: the pending table, the
\* connection state and every waiter stay as they are, and the lines that
\* follow are still handled.
C29_BadLinesIgnored ==
    [][ /\ \A line \in Lines :
              (lastLine' = line /\ lastLine # line /\ Ignored(line)) =>
                  UNCHANGED <<messageId, pendingRequests, isConnected,
                              rlClosed, requests, waiter, timers, resuming,
                              written, notInitialized>>
        /\ \A line \in Lines :
              (Handles(line) /\ Ignored(lastLine) /\ ~Ignored(line)) =>
                  /\ waiter'[pendingRequests[line.id]] # "pending"
                  /\ line.id \notin DOMAIN pendingRequests'
      ]_vars

C29_Witness ==
    /\ lastLine.kind = "text"
    /\ ~rlClosed
    /\ isConnected
    /\ \E k \in Sent : waiter[k] = "pending" /\ IsPending(k)
    /\ \E k \in Sent : waiter[k] = "resolved"

\* ---------------------------------------------- overlapping invocations
\* the answer the same invocation gets when nothing else is in flight
SoloAnswer(name, args, outcome) ==
    LET d == tools_call(name, args)
    IN  IF IsDefined(d.answer) THEN d.answer[1]
        ELSE HandlerAnswer(HandlerFinish(name, d.params[1],
                                         ClientMethod(d.call[1], outcome[1])))

====
